---- MODULE Spec2Model ----
(***************************************************************************)
(* A model of notebooks/0-GRFN-demo.ipynb: the catalog of interferograms   *)
(* built from a bucket listing, the stacked dataset, the coastline mask,   *)
(* the saved view and the pixel time series.                               *)
(*                                                                         *)
(* Strings are sequences of character codes, so that sorting, splitting    *)
(* and basename are computed the way Python computes them.  Dates are the  *)
(* integers yyyymmdd (a datetime of the catalog), day differences are      *)
(* differences of proleptic ordinals (a timedelta in days).                *)
(***************************************************************************)
EXTENDS Integers, Sequences, FiniteSets, TLC

VARIABLES
    images,     \* fs.ls(...): the object keys of the bucket
    remote,     \* the rasters of the bucket, by public url
    df,         \* make_dataframe(images): <<>> until built
    dfState,    \* "none" | "ok" | "error" (parse_name raised)
    DS,         \* create_dataset(df), with the mask coordinate once attached
    dsState,    \* "none" | "ok" | "error" (xr.concat raised)
    gf,         \* the coastline polygon: the cells of the grid it covers
    water,      \* the boolean mask layer, <<>> until computed
    DSmasked,   \* DS.where(DS.mask == False)
    maskState,  \* "none" | "ok"
    img,        \* the viewer: the band shown and the visible x and y ranges
    ds,         \* DSmasked.sel(get_xarray_selection(img))
    selState,   \* "none" | "ok" | "error" (no range to slice by)
    stack,      \* the mean over the bands of ds, masked once more
    stackState, \* "none" | "ok"
    files,      \* the local GeoTIFFs, by name
    localname,  \* what save_current_view returned last, <<>> before
    saveState,  \* "none" | "ok" | "error" (nothing to read in the window)
    saves,      \* how many times save_current_view ran
    ts,         \* ds.sel(x=xcen, y=ycen, method='nearest').compute()
    tsState,    \* "none" | "ok" | "error" (no cell to choose from)
    s,          \* ts.unw.to_series(): (index, value) pairs
    sState,     \* "none" | "ok"
    csv,        \* the lines of time-series.csv
    csvState    \* "none" | "ok"

loadVars == <<images, remote, df, dfState, DS, dsState>>
maskVars == <<gf, water, DSmasked, maskState>>
viewVars == <<img, ds, selState, stack, stackState>>
saveVars == <<files, localname, saveState, saves>>
seriesVars == <<ts, tsState, s, sState, csv, csvState>>
vars == <<loadVars, maskVars, viewVars, saveVars, seriesVars>>

----------------------------------------------------------------------------
(* Bounds of the model *)
MaxImages == 2
Height == 2
Width == 3
MaxSaves == 2

----------------------------------------------------------------------------
(* Character strings *)

Slash == 47
Dash == 45
IsDigit(c) == c >= 48 /\ c <= 57

\* "p/b/" : a project and a bucket, as in '{project}/{bucket}/'
KeyPrefix == <<112, Slash, 98, Slash>>
\* "unw" : the format field
KeySuffix == <<117, 110, 119>>
\* 'http://storage.googleapis.com/' abbreviated to "h://s/"
HttpPrefix == <<104, 58, Slash, Slash, 115, Slash>>
\* 'subset-'
SubsetPrefix == <<115, 117, 98, 115, 101, 116, Dash>>

RECURSIVE StrLess(_, _)
\* Python's < on str: lexicographic by code point, a proper prefix first
StrLess(a, b) ==
    IF b = <<>> THEN FALSE
    ELSE IF a = <<>> THEN TRUE
    ELSE IF Head(a) # Head(b) THEN Head(a) < Head(b)
    ELSE StrLess(Tail(a), Tail(b))

StrLeq(a, b) == a = b \/ StrLess(a, b)

\* index of the first c in s, 0 when there is none
Find(str, c) ==
    IF \E i \in 1..Len(str) : str[i] = c
    THEN CHOOSE i \in 1..Len(str) : str[i] = c /\ \A j \in 1..(i - 1) : str[j] # c
    ELSE 0

\* index of the last c in s, 0 when there is none
RFind(str, c) ==
    IF \E i \in 1..Len(str) : str[i] = c
    THEN CHOOSE i \in 1..Len(str) : str[i] = c /\ \A j \in (i + 1)..Len(str) : str[j] # c
    ELSE 0

\* os.path.basename: what follows the last '/'
Basename(str) == SubSeq(str, RFind(str, Slash) + 1, Len(str))

----------------------------------------------------------------------------
(* Dates *)

TwoDigits(n) == <<48 + (n \div 10), 48 + (n % 10)>>
\* strftime('%Y%m%d') of the date <<y, m, d>>
FormatDate(t) == TwoDigits(t[1] \div 100) \o TwoDigits(t[1] % 100)
                 \o TwoDigits(t[2]) \o TwoDigits(t[3])

IsLeap(y) == (y % 4 = 0 /\ y % 100 # 0) \/ y % 400 = 0
DaysInMonth(y, m) ==
    IF m = 2 THEN (IF IsLeap(y) THEN 29 ELSE 28)
    ELSE IF m \in {4, 6, 9, 11} THEN 30 ELSE 31
RECURSIVE DaysBeforeMonth(_, _)
DaysBeforeMonth(y, m) ==
    IF m = 1 THEN 0 ELSE DaysBeforeMonth(y, m - 1) + DaysInMonth(y, m - 1)
\* date.toordinal of the date yyyymmdd
Ordinal(date) ==
    LET y == date \div 10000
        m == (date \div 100) % 100
        d == date % 100
        p == y - 1
    IN  p * 365 + (p \div 4) - (p \div 100) + (p \div 400)
        + DaysBeforeMonth(y, m) + d

Num(str) == IF str = <<>> THEN 0
          ELSE LET RECURSIVE N(_)
                   N(k) == IF k = 0 THEN 0 ELSE N(k - 1) * 10 + (str[k] - 48)
               IN  N(Len(str))

\* datetime.strptime(s, '%Y%m%d'): the date yyyymmdd, or -1 for ValueError
Strptime(str) ==
    IF Len(str) # 8 \/ \E i \in 1..Len(str) : ~IsDigit(str[i]) THEN -1
    ELSE LET y == Num(SubSeq(str, 1, 4))
             m == Num(SubSeq(str, 5, 6))
             d == Num(SubSeq(str, 7, 8))
         IN  IF y >= 1 /\ m >= 1 /\ m <= 12 /\ d >= 1 /\ d <= DaysInMonth(y, m)
             THEN y * 10000 + m * 100 + d
             ELSE -1

----------------------------------------------------------------------------
(* The bucket listing *)

\* acquisition dates of the listing, as <<year, month, day>>
Dates == {<<2019, 12, 20>>, <<2020, 1, 1>>, <<2020, 1, 15>>, <<2020, 3, 1>>}
DateInt(t) == t[1] * 10000 + t[2] * 100 + t[3]

\* an object key of the naming convention '{date1}-{date2}-{format}'
MakeKey(t1, t2) ==
    KeyPrefix \o FormatDate(t1) \o <<Dash>> \o FormatDate(t2) \o <<Dash>> \o KeySuffix

GoodKeys == {MakeKey(t1, t2) : t1 \in Dates, t2 \in Dates}
\* a key whose first date is no date: month 13
BadKey == KeyPrefix \o <<50, 48, 50, 48, 49, 51, 48, 49>> \o <<Dash>>
          \o FormatDate(<<2020, 1, 15>>) \o <<Dash>> \o KeySuffix

Listings(keys) == UNION {[1..n -> keys] : n \in 1..MaxImages}

----------------------------------------------------------------------------
(* Catalog builder *)

\* the part of s before the first c, and the rest after it
Before(str, c) == SubSeq(str, 1, Find(str, c) - 1)
After(str, c) == SubSeq(str, Find(str, c) + 1, Len(str))

\* reverse_format(pattern, gsPath)[key] for key in date1, date2: the fields
\* are what lies between the pattern's literals '/', '/', '-', '-'
parse_name(gsPath, key) ==
    LET afterProject == After(gsPath, Slash)
        afterBucket == After(afterProject, Slash)
        field1 == Before(afterBucket, Dash)
        afterDate1 == After(afterBucket, Dash)
        field2 == Before(afterDate1, Dash)
    IN  IF Find(gsPath, Slash) = 0 \/ Find(afterProject, Slash) = 0
           \/ Find(afterBucket, Dash) = 0 \/ Find(afterDate1, Dash) = 0
        THEN -1
        ELSE IF key = "date1" THEN Strptime(field1) ELSE Strptime(field2)

\* the frame left in listing order
SortValuesSkipped(str) == str
\* df.sort_values('gs').reset_index(drop=True)
SortValues(str) == SortSeq(str, StrLess)

\* one row of the frame, from the key at its own position
CatalogRow(sorted, i) ==
    [gs |-> sorted[i],
     url |-> HttpPrefix \o sorted[i],
     date1 |-> parse_name(sorted[i], "date1"),
     date2 |-> parse_name(sorted[i], "date2"),
     dt |-> Ordinal(parse_name(sorted[i], "date1"))
            - Ordinal(parse_name(sorted[i], "date2"))]

make_dataframe(imgs) ==
    LET sorted == SortValues(imgs)
    IN  [i \in 1..Len(imgs) |-> CatalogRow(sorted, i)]

\* whether parse_name raises on some key
ParseFails(imgs) ==
    \E i \in 1..Len(imgs) :
        parse_name(imgs[i], "date1") = -1 \/ parse_name(imgs[i], "date2") = -1

MakeDataframe ==
    /\ dfState = "none"
    /\ IF ParseFails(images)
       THEN /\ dfState' = "error"
            /\ df' = <<>>
       ELSE /\ dfState' = "ok"
            /\ df' = make_dataframe(images)
    /\ UNCHANGED <<images, remote, DS, dsState, maskVars, viewVars, saveVars, seriesVars>>

----------------------------------------------------------------------------
(* Rasters of the bucket *)

\* the missing-data marker (NaN) of where(); phase values are >= 0
NaN == -1

\* A grid is [height, width, left, top]; a cell is 2 units wide and high, so
\* that cell centres (odd offsets) and cell edges (even offsets) are integers.
BaseGrid == [height |-> Height, width |-> Width, left |-> 0, top |-> 2 * Height]
\* the same shape one cell further east
ShiftedGrid == [BaseGrid EXCEPT !.left = 2]
\* one column less
NarrowGrid == [BaseGrid EXCEPT !.width = Width - 1]
Grids == {BaseGrid, ShiftedGrid, NarrowGrid}

\* the unwrapped phase stored for key at row r, column c (from 1)
Phase(key, r, c) == (parse_name(key, "date1") % 10000) * 100 + r * 10 + c

\* the nodata value of a profile, when it is set
NodataNone == [set |-> FALSE, value |-> 0]
Nodata(v) == [set |-> TRUE, value |-> v]

\* a defect is [cell, value]: the stored value at one cell replaced
NoDefect == [cell |-> <<0, 0>>, value |-> 0]

\* the GeoTIFF stored under key: its profile and its band 1
Raster(key, g, nodata, defect) ==
    [height |-> g.height, width |-> g.width, left |-> g.left, top |-> g.top,
     nodata |-> nodata,
     data |-> [r \in 1..g.height |-> [c \in 1..g.width |->
                 IF <<r, c>> = defect.cell THEN defect.value
                 ELSE Phase(key, r, c)]]]

Url(key) == HttpPrefix \o key

\* the three objects of the bucket the later stages work on
StoreKeys == {MakeKey(<<2020, 1, 15>>, <<2020, 1, 1>>),
              MakeKey(<<2020, 1, 1>>, <<2019, 12, 20>>),
              MakeKey(<<2020, 3, 1>>, <<2020, 1, 15>>)}

\* listings without repetition, as fs.ls gives them
DistinctListings(keys) ==
    {l \in Listings(keys) : \A i, j \in 1..Len(l) : i # j => l[i] # l[j]}

----------------------------------------------------------------------------
(* Lazy array loader *)

\* the bands left labelled as rasterio numbers them, from 1
ArangeFromOne(n) == [i \in 1..n |-> i]
\* np.arange(n)
Arange(n) == [i \in 1..n |-> i - 1]

\* xr.open_rasterio(url, parse_coordinates=...).to_dataset(name='unw'):
\* x and y are cell centres, and are not built without parse_coordinates
open_rasterio(r, parse_coordinates) ==
    [band |-> <<1>>,
     x |-> IF parse_coordinates
           THEN [c \in 1..r.width |-> r.left + 2 * (c - 1) + 1] ELSE <<>>,
     y |-> IF parse_coordinates
           THEN [k \in 1..r.height |-> r.top - 2 * (k - 1) - 1] ELSE <<>>,
     sizes |-> <<r.height, r.width>>,
     unw |-> <<r.data>>,
     mask |-> <<>>]

\* the datasets create_dataset appends: coordinates are parsed for the first only
OpenAll(frame, store) ==
    [i \in 1..Len(frame) |-> open_rasterio(store[frame[i].url], i = 1)]

\* xr.concat aligns the datasets first: one without labels along y or x must
\* have the size of the labelled dimension, else ValueError
ConcatFails(datasets) ==
    \E i \in 1..Len(datasets) : datasets[i].sizes # datasets[1].sizes

\* xr.concat(datasets, dim='band'): the bands one after the other, under the
\* coordinates of the first dataset
Concat(datasets) ==
    [band |-> [i \in 1..Len(datasets) |-> datasets[i].band[1]],
     x |-> datasets[1].x,
     y |-> datasets[1].y,
     unw |-> [i \in 1..Len(datasets) |-> datasets[i].unw[1]],
     mask |-> <<>>]

create_dataset(frame, store) ==
    [Concat(OpenAll(frame, store)) EXCEPT !.band = Arange(Len(frame))]

NoDataset == [band |-> <<>>, x |-> <<>>, y |-> <<>>, unw |-> <<>>, mask |-> <<>>]

CreateDataset ==
    /\ dfState = "ok"
    /\ dsState = "none"
    /\ IF ConcatFails(OpenAll(df, remote))
       THEN /\ dsState' = "error"
            /\ DS' = NoDataset
       ELSE /\ dsState' = "ok"
            /\ DS' = create_dataset(df, remote)
    /\ UNCHANGED <<images, remote, df, dfState, maskVars, viewVars, saveVars, seriesVars>>

----------------------------------------------------------------------------
(* Mask applier *)

Cells == (1..Height) \X (1..Width)
\* the polygons: rectangles of cells, the empty one included
Polygons == {{rc \in Cells : rc[1] \in r0..r1 /\ rc[2] \in c0..c1} :
             r0 \in 1..Height, r1 \in 0..Height, c0 \in 1..Width, c1 \in 0..Width}

\* rasterio.mask.mask(src, shapes, indexes=1): band 1 with the cells outside
\* the shapes, and the cells holding src.nodata, filled with src.nodata, or
\* with 0 when the profile sets none
mask(src, shapes) ==
    LET fill == IF src.nodata.set THEN src.nodata.value ELSE 0
    IN  [r \in 1..src.height |-> [c \in 1..src.width |->
            IF <<r, c>> \notin shapes THEN fill
            ELSE IF src.nodata.set /\ src.data[r][c] = src.nodata.value THEN fill
            ELSE src.data[r][c]]]

\* out_image == 0
EqualsZero(out_image) ==
    [r \in 1..Len(out_image) |-> [c \in 1..Len(out_image[r]) |-> out_image[r][c] = 0]]

\* d.where(d.mask == False): the values kept where the mask is False, NaN
\* elsewhere; coordinates and shape are kept
Where(d) ==
    [d EXCEPT !.unw = [b \in 1..Len(d.unw) |-> [r \in 1..Len(d.unw[b]) |->
        [c \in 1..Len(d.unw[b][r]) |->
            IF d.mask[r][c] = FALSE THEN d.unw[b][r][c] ELSE NaN]]]]

MaskDataset ==
    /\ dsState = "ok"
    /\ maskState = "none"
    /\ LET src == remote[df[1].url]
           out_image == mask(src, gf)
       IN  /\ water' = EqualsZero(out_image)
           /\ DS' = [DS EXCEPT !.mask = EqualsZero(out_image)]
           /\ DSmasked' = Where([DS EXCEPT !.mask = EqualsZero(out_image)])
    /\ maskState' = "ok"
    /\ UNCHANGED <<images, remote, df, dfState, dsState, gf, viewVars, saveVars, seriesVars>>

----------------------------------------------------------------------------
(* Interactive viewer *)

\* the extent of the dataset on show
Left == DS.x[1] - 1
Right == DS.x[Len(DS.x)] + 1
Top == DS.y[1] + 1
Bottom == DS.y[Len(DS.y)] - 1

\* the views a pan or a box zoom leaves, as [x_range, y_range]
View(xr, yr) == [x_range |-> xr, y_range |-> yr]
Views == {
    \* the whole extent
    View(<<Left, Right>>, <<Bottom, Top>>),
    \* from the first cell edge east, between the outer cell centres
    View(<<Left + 2, Right>>, <<Bottom + 1, Top - 1>>),
    \* inside the north-west cell
    View(<<Left + 1, Left + 2>>, <<Top - 2, Top - 1>>),
    \* across the north-west corner
    View(<<Left - 2, Left + 3>>, <<Top - 3, Top + 2>>),
    \* across the south-east corner
    View(<<Right - 2, Right + 2>>, <<Bottom - 2, Bottom + 1>>),
    \* east of the extent
    View(<<Right + 1, Right + 2>>, <<Bottom, Top>>),
    \* zoomed out past every edge
    View(<<Left - 2, Right + 2>>, <<Bottom - 2, Top + 2>>)}

\* the plot as first drawn: band 0, and no range yet
FirstView == [band |-> 0, x_range |-> <<>>, y_range |-> <<>>]

\* the band slider
SelectBand ==
    /\ maskState = "ok"
    /\ selState = "none"
    /\ \E b \in 1..Len(DSmasked.band) :
          /\ DSmasked.band[b] # img.band
          /\ img' = [img EXCEPT !.band = DSmasked.band[b]]
    /\ UNCHANGED <<loadVars, maskVars, ds, selState, stack, stackState, saveVars, seriesVars>>

\* pan and box zoom
Zoom ==
    /\ maskState = "ok"
    /\ selState = "none"
    /\ \E v \in Views :
          /\ <<v.x_range, v.y_range>> # <<img.x_range, img.y_range>>
          /\ img' = [img EXCEPT !.x_range = v.x_range, !.y_range = v.y_range]
    /\ UNCHANGED <<loadVars, maskVars, ds, selState, stack, stackState, saveVars, seriesVars>>

----------------------------------------------------------------------------
(* Region selection and the stack *)

\* get_xarray_selection(img): slice(*x_range), slice(*y_range[::-1])
get_xarray_selection(view) ==
    [x |-> view.x_range, y |-> <<view.y_range[2], view.y_range[1]>>]

\* positions of the labels a slice keeps: both ends are inclusive; x ascends
\* and y descends, so the y slice runs from its larger end to its smaller
XKept(d, sl) == {c \in 1..Len(d.x) : sl[1] <= d.x[c] /\ d.x[c] <= sl[2]}
YKept(d, sl) == {r \in 1..Len(d.y) : sl[1] >= d.y[r] /\ d.y[r] >= sl[2]}

\* the k-th smallest element of a set of integers
RECURSIVE Nth(_, _)
Nth(S, k) ==
    LET m == CHOOSE v \in S : \A w \in S : v <= w
    IN  IF k = 1 THEN m ELSE Nth(S \ {m}, k - 1)

\* rows and columns of a 2-D array picked by position
Pick(a, rows, cols) ==
    [i \in 1..Cardinality(rows) |-> [j \in 1..Cardinality(cols) |->
        a[Nth(rows, i)][Nth(cols, j)]]]

\* the selection that slices the mask coordinate by position, from the
\* first row and column, instead of by label
SelMaskByPosition(d, selection) ==
    LET rows == YKept(d, selection.y)
        cols == XKept(d, selection.x)
    IN  [band |-> d.band,
         x |-> [j \in 1..Cardinality(cols) |-> d.x[Nth(cols, j)]],
         y |-> [i \in 1..Cardinality(rows) |-> d.y[Nth(rows, i)]],
         unw |-> [b \in 1..Len(d.unw) |-> Pick(d.unw[b], rows, cols)],
         mask |-> Pick(d.mask, 1..Cardinality(rows), 1..Cardinality(cols))]

\* d.sel(x=slice, y=slice): every variable and coordinate cut to the labels
\* inside the slices; nothing is raised for a slice that leaves the extent
Sel(d, selection) ==
    LET rows == YKept(d, selection.y)
        cols == XKept(d, selection.x)
    IN  [band |-> d.band,
         x |-> [j \in 1..Cardinality(cols) |-> d.x[Nth(cols, j)]],
         y |-> [i \in 1..Cardinality(rows) |-> d.y[Nth(rows, i)]],
         unw |-> [b \in 1..Len(d.unw) |-> Pick(d.unw[b], rows, cols)],
         mask |-> Pick(d.mask, rows, cols)]

\* ds = DSmasked.sel(get_xarray_selection(img)); slice(*None) is a TypeError
Select ==
    /\ maskState = "ok"
    /\ selState = "none"
    /\ IF img.x_range = <<>>
       THEN /\ selState' = "error"
            /\ ds' = NoDataset
       ELSE /\ selState' = "ok"
            /\ ds' = Sel(DSmasked, get_xarray_selection(img))
    /\ UNCHANGED <<loadVars, maskVars, img, stack, stackState, saveVars, seriesVars>>

\* the values of the bands at one cell that are not missing
Present(d, r, c) == {b \in 1..Len(d.unw) : d.unw[b][r][c] # NaN}
RECURSIVE SumOver(_, _, _, _)
SumOver(d, r, c, bands) ==
    IF bands = {} THEN 0
    ELSE LET b == CHOOSE v \in bands : TRUE
         IN  d.unw[b][r][c] + SumOver(d, r, c, bands \ {b})

\* d.mean(dim='band'): missing values are skipped; the mean is kept exact,
\* as the sum and the number of values it divides by (none: missing)
Mean(d) ==
    [r \in 1..Len(d.y) |-> [c \in 1..Len(d.x) |->
        [sum |-> SumOver(d, r, c, Present(d, r, c)),
         count |-> Cardinality(Present(d, r, c))]]]

\* stack = ds.where(ds.mask == False).mean(dim='band')
Stack ==
    /\ selState = "ok"
    /\ stackState = "none"
    /\ stack' = Mean(Where(ds))
    /\ stackState' = "ok"
    /\ UNCHANGED <<loadVars, maskVars, img, ds, selState, saveVars, seriesVars>>

----------------------------------------------------------------------------
(* Window extraction *)

\* get_src(img): the url of the catalog row at the position of the band shown
get_src(view) == df[view.band + 1].url

\* src.bounds: (left, bottom, right, top)
Bounds(src) == <<src.left, src.top - 2 * src.height, src.left + 2 * src.width, src.top>>

\* src.index(x, y): (row, col) of the cell holding the point, by flooring;
\* it is computed for points off the raster too
Index(src, x, y) == <<(src.top - y) \div 2, (x - src.left) \div 2>>

\* rasterio.windows.Window(col_off, row_off, width, height), offsets from 0
Window(col_off, row_off, width, height) ==
    [col_off |-> col_off, row_off |-> row_off, width |-> width, height |-> height]

get_window(view, src) ==
    LET bounds == IF view.x_range = <<>> THEN Bounds(src)
                  ELSE <<view.x_range[1], view.y_range[1],
                         view.x_range[2], view.y_range[2]>>
        ul == Index(src, bounds[1], bounds[4])
        lr == Index(src, bounds[3], bounds[2])
    IN  Window(ul[2], ul[1], lr[2] - ul[2], lr[1] - ul[1])

Min(a, b) == IF a < b THEN a ELSE b
Max(a, b) == IF a > b THEN a ELSE b

\* Window.crop(height, width): what a read that is not boundless keeps
Crop(w, height, width) ==
    LET row_start == Min(Max(w.row_off, 0), height)
        col_start == Min(Max(w.col_off, 0), width)
        row_stop == Max(0, Min(w.row_off + w.height, height))
        col_stop == Max(0, Min(w.col_off + w.width, width))
    IN  Window(col_start, row_start, col_stop - col_start, row_stop - row_start)

\* src.read(1, window=window): the cells of the window cropped to the raster
Read(src, window) ==
    LET w == Crop(window, src.height, src.width)
    IN  [i \in 1..w.height |-> [j \in 1..w.width |->
            src.data[w.row_off + i][w.col_off + j]]]

\* a window that keeps no cell cannot be read
ReadFails(src, window) ==
    LET w == Crop(window, src.height, src.width)
    IN  w.height <= 0 \/ w.width <= 0

\* the file name taken from the parameter's default, 'local-image.tif'
LocalNameDefault(src_name) == <<108, 111, 99, 97, 108>>
\* 'subset-' + os.path.basename(src.name)
LocalName(src_name) == SubsetPrefix \o Basename(src_name)

\* the profile updated with data.shape read as (width, height)
SubsetShapeSwapped(src, window) ==
    LET data == Read(src, window)
    IN  [height |-> Len(data[1]), width |-> Len(data),
         left |-> src.left + 2 * window.col_off,
         top |-> src.top - 2 * window.row_off,
         nodata |-> src.nodata,
         data |-> data]

\* the GeoTIFF written: the source profile with height and width of the data
\* read and the transform of the window, src.window_transform(window)
Subset(src, window) ==
    LET data == Read(src, window)
    IN  [height |-> Len(data), width |-> Len(data[1]),
         left |-> src.left + 2 * window.col_off,
         top |-> src.top - 2 * window.row_off,
         nodata |-> src.nodata,
         data |-> data]

\* the local files with name written anew
WriteFile(fs, name, content) ==
    [n \in DOMAIN fs \cup {name} |-> IF n = name THEN content ELSE fs[n]]

\* localname = save_current_view(img)
SaveCurrentView ==
    /\ maskState = "ok"
    /\ selState = "none"
    /\ saves < MaxSaves
    /\ saves' = saves + 1
    /\ LET image_url == get_src(img)
           src == remote[image_url]
           window == get_window(img, src)
       IN  IF ReadFails(src, window)
           THEN /\ saveState' = "error"
                /\ UNCHANGED <<files, localname>>
           ELSE /\ saveState' = "ok"
                /\ localname' = LocalName(image_url)
                /\ files' = WriteFile(files, LocalName(image_url), Subset(src, window))
    /\ UNCHANGED <<loadVars, maskVars, viewVars, seriesVars>>

----------------------------------------------------------------------------
(* Point and time-series extraction *)

\* the point of the series, in the units of the model's grid: on the edge
\* between the first two columns, at the centre of the first row
xcen == 2
ycen == 2 * Height - 1

Abs(n) == IF n < 0 THEN 0 - n ELSE n

\* index of the label nearest to target; equal distances go to the larger label
Nearest(labels, target) ==
    CHOOSE i \in 1..Len(labels) :
        \A j \in 1..Len(labels) :
            \/ Abs(labels[i] - target) < Abs(labels[j] - target)
            \/ /\ Abs(labels[i] - target) = Abs(labels[j] - target)
               /\ labels[i] >= labels[j]

\* d.sel(x=px, y=py, method='nearest'): one cell, over every band
SelNearest(d, px, py) ==
    LET r == Nearest(d.y, py)
        c == Nearest(d.x, px)
    IN  [band |-> d.band, x |-> d.x[c], y |-> d.y[r],
         unw |-> [b \in 1..Len(d.unw) |-> d.unw[b][r][c]],
         mask |-> d.mask[r][c]]

NoPoint == [band |-> <<>>, x |-> 0, y |-> 0, unw |-> <<>>, mask |-> FALSE]

\* ts = ds.sel(x=xcen, y=ycen, method='nearest').compute()
TimeSeries ==
    /\ selState = "ok"
    /\ tsState = "none"
    /\ IF Len(ds.x) = 0 \/ Len(ds.y) = 0
       THEN /\ tsState' = "error"
            /\ ts' = NoPoint
       ELSE /\ tsState' = "ok"
            /\ ts' = SelNearest(ds, xcen, ycen)
    /\ UNCHANGED <<loadVars, maskVars, viewVars, saveVars, s, sState, csv, csvState>>

\* the series put in descending order of its values
to_series_sorted(t) ==
    SortSeq([i \in 1..Len(t.band) |-> <<t.band[i], t.unw[i]>>],
            LAMBDA a, b : a[2] > b[2])
\* ts.unw.to_series(): the values indexed by the band coordinate
to_series(t) == [i \in 1..Len(t.band) |-> <<t.band[i], t.unw[i]>>]

\* s = ts.unw.to_series()
ToSeries ==
    /\ tsState = "ok"
    /\ sState = "none"
    /\ s' = to_series(ts)
    /\ sState' = "ok"
    /\ UNCHANGED <<loadVars, maskVars, viewVars, saveVars, ts, tsState, csv, csvState>>

Comma == 44
RECURSIVE FormatInt(_)
\* str(n) for n >= 0
FormatInt(n) == IF n < 10 THEN <<48 + n>> ELSE FormatInt(n \div 10) \o <<48 + (n % 10)>>

\* one line of to_csv(header=False): index, value; a missing value is empty
CsvLine(pair) ==
    FormatInt(pair[1]) \o <<Comma>> \o (IF pair[2] = NaN THEN <<>> ELSE FormatInt(pair[2]))

\* s.to_csv('time-series.csv', header=False)
ToCsv ==
    /\ sState = "ok"
    /\ csvState = "none"
    /\ csv' = [i \in 1..Len(s) |-> CsvLine(s[i])]
    /\ csvState' = "ok"
    /\ UNCHANGED <<loadVars, maskVars, viewVars, saveVars, ts, tsState, s, sState>>

----------------------------------------------------------------------------
(* Specifications: each explores the inputs of one stage *)

\* the stores that hold a raster for each listed key
Stores(listing, grids, nodatas, defects) ==
    {[u \in {Url(listing[i]) : i \in 1..Len(listing)} |->
        Raster(SubSeq(u, Len(HttpPrefix) + 1, Len(u)),
               pick[u], nd, IF u = Url(SortValues(listing)[1]) THEN df0 ELSE NoDefect)] :
     pick \in [{Url(listing[i]) : i \in 1..Len(listing)} -> grids],
     nd \in nodatas, df0 \in defects}

\* a polygon covering the west of the grid but its last row
WestPolygon == {rc \in Cells : rc[1] < Height /\ rc[2] < Width}

NothingLoaded ==
    /\ df = <<>>
    /\ dfState = "none"
    /\ DS = NoDataset
    /\ dsState = "none"

NothingMasked ==
    /\ water = <<>>
    /\ DSmasked = NoDataset
    /\ maskState = "none"

NothingViewed ==
    /\ img = FirstView
    /\ ds = NoDataset
    /\ selState = "none"
    /\ stack = <<>>
    /\ stackState = "none"
    /\ files = <<>>
    /\ localname = <<>>
    /\ saveState = "none"
    /\ saves = 0
    /\ ts = NoPoint
    /\ tsState = "none"
    /\ s = <<>>
    /\ sState = "none"
    /\ csv = <<>>
    /\ csvState = "none"

\* the catalog builder on every listing
InitCatalog ==
    /\ images \in Listings(GoodKeys \cup {BadKey})
    /\ remote \in Stores(images, {BaseGrid}, {NodataNone}, {NoDefect})
    /\ gf = WestPolygon
    /\ NothingLoaded /\ NothingMasked /\ NothingViewed

NextCatalog == MakeDataframe

SpecCatalog == InitCatalog /\ [][NextCatalog]_vars

\* the loader on rasters of every grid
InitDataset ==
    /\ images \in DistinctListings(StoreKeys)
    /\ remote \in Stores(images, Grids, {NodataNone}, {NoDefect})
    /\ gf = WestPolygon
    /\ NothingLoaded /\ NothingMasked /\ NothingViewed

NextDataset == MakeDataframe \/ CreateDataset

SpecDataset == InitDataset /\ [][NextDataset]_vars

\* listings of MaxImages keys, in descending order
FullListings ==
    {l \in DistinctListings(StoreKeys) :
        Len(l) = MaxImages /\ \A i \in 1..(Len(l) - 1) : StrLess(l[i + 1], l[i])}

\* the state once the catalog, the dataset and the mask cells have run
Loaded ==
    /\ df = make_dataframe(images)
    /\ dfState = "ok"
    /\ DS = [create_dataset(make_dataframe(images), remote) EXCEPT
               !.mask = EqualsZero(mask(remote[Url(SortValues(images)[1])], gf))]
    /\ dsState = "ok"
    /\ water = DS.mask
    /\ DSmasked = Where(DS)
    /\ maskState = "ok"

\* the viewer and the extractor over a masked stack of aligned rasters
InitExtract ==
    /\ images \in FullListings
    /\ remote \in Stores(images, {BaseGrid}, {NodataNone}, {NoDefect})
    /\ gf = WestPolygon
    /\ Loaded
    /\ NothingViewed

NextExtract ==
    \/ SelectBand \/ Zoom \/ SaveCurrentView
    \/ Select \/ TimeSeries \/ ToSeries \/ ToCsv

SpecExtract == InitExtract /\ [][NextExtract]_vars

\* the defects of the reference image: one cell holding 0, or holding NaN
Defects == {NoDefect} \cup {[cell |-> rc, value |-> v] : rc \in Cells, v \in {0, NaN}}

\* the mask applier on every polygon, over aligned rasters
InitMask ==
    /\ images \in FullListings
    /\ remote \in Stores(images, {BaseGrid}, {NodataNone, Nodata(0)}, Defects)
    /\ gf \in Polygons
    /\ NothingLoaded /\ NothingMasked /\ NothingViewed

NextMask == MakeDataframe \/ CreateDataset \/ MaskDataset \/ Zoom \/ Select \/ Stack

SpecMask == InitMask /\ [][NextMask]_vars

----------------------------------------------------------------------------
(* Claims *)

\* how many positions of the sequence s hold v
Count(str, v) == Cardinality({i \in 1..Len(str) : str[i] = v})
Column(frame, f) == [i \in 1..Len(frame) |-> frame[i][f]]

\* the grid of a stored raster
GridOf(r) == [height |-> r.height, width |-> r.width, left |-> r.left, top |-> r.top]
\* every catalogued raster has the grid of the first one
GridsIdentical ==
    \A i \in 1..Len(df) : GridOf(remote[df[i].url]) = GridOf(remote[df[1].url])

\* C1: for a listing whose keys all match the template, the catalog has one
\* row per listed key, its rows ascend by gs, and each row's date1, date2 are
\* the dates written in that row's own path, with dt = date1 - date2 in days.
C1_CatalogSortedWithDelta ==
    /\ (dfState # "none" /\ \A i \in 1..Len(images) : images[i] \in GoodKeys)
          => dfState = "ok"
    /\ dfState = "ok" =>
          /\ Len(df) = Len(images)
          /\ \A k \in GoodKeys : Count(Column(df, "gs"), k) = Count(images, k)
          /\ \A i \in 1..(Len(df) - 1) : StrLeq(df[i].gs, df[i + 1].gs)
          /\ \A i \in 1..Len(df) :
                /\ \E t1, t2 \in Dates :
                      /\ df[i].gs = MakeKey(t1, t2)
                      /\ df[i].date1 = DateInt(t1)
                      /\ df[i].date2 = DateInt(t2)
                /\ df[i].dt = Ordinal(df[i].date1) - Ordinal(df[i].date2)

\* a catalog built from a listing that was not in order, whose first row
\* spans the turn of the year: 2020-01-01 minus 2019-12-20 is 12 days
C1_Witness ==
    /\ dfState = "ok"
    /\ Len(df) = 2
    /\ images[1] = df[2].gs
    /\ images[2] = df[1].gs
    /\ df[1].gs # df[2].gs
    /\ df[1].date1 = 20200101
    /\ df[1].date2 = 20191220
    /\ df[1].dt = 12

\* C2: for N images of identical grids, create_dataset returns a dataset of
\* N bands labelled 0..N-1, band i holding the image of catalog row i, with
\* the spatial shape of a single image.
C2_StackOfAlignedImages ==
    (dsState # "none" /\ GridsIdentical) =>
        /\ dsState = "ok"
        /\ Len(DS.band) = Len(df)
        /\ Len(DS.unw) = Len(df)
        /\ \A i \in 1..Len(df) :
              /\ DS.band[i] = i - 1
              /\ DS.unw[i] = remote[df[i].url].data
              /\ Len(DS.unw[i]) = remote[df[1].url].height
              /\ \A r \in 1..Len(DS.unw[i]) :
                    Len(DS.unw[i][r]) = remote[df[1].url].width
        /\ Len(DS.y) = remote[df[1].url].height
        /\ Len(DS.x) = remote[df[1].url].width

\* two aligned images, listed out of order, stacked
C2_Witness ==
    /\ dsState = "ok"
    /\ GridsIdentical
    /\ Len(df) >= 2
    /\ images[1] # df[1].gs
    /\ DS.unw[1] # DS.unw[2]

\* C3: an image whose grid (shape or coordinates) differs from the first
\* image's makes create_dataset raise; no dataset is returned.
C3_GridMismatchAborts ==
    (dsState # "none" /\ ~GridsIdentical) => dsState = "error"

\* the number of missing values of a dataset
MissingCount(d) ==
    Cardinality({brc \in (1..Len(d.unw)) \X (1..Len(d.y)) \X (1..Len(d.x)) :
                   d.unw[brc[1]][brc[2]][brc[3]] = NaN})

\* C4: applying where(mask == False) once more to a masked dataset, the whole
\* DSmasked or the window ds cut from it, changes no value and no count of
\* missing values; the stack computed through it is the mean of ds itself.
C4_MaskIdempotent ==
    /\ maskState = "ok" =>
          /\ Where(DSmasked) = DSmasked
          /\ MissingCount(Where(DSmasked)) = MissingCount(DSmasked)
    /\ selState = "ok" =>
          /\ Where(ds) = ds
          /\ MissingCount(Where(ds)) = MissingCount(ds)
    /\ stackState = "ok" => stack = Mean(ds)

\* a window holding masked and unmasked cells, cut off the grid's first
\* column, and stacked
C4_Witness ==
    /\ stackState = "ok"
    /\ Len(ds.x) >= 1 /\ Len(ds.x) < Len(DSmasked.x)
    /\ ds.x[1] # DSmasked.x[1]
    /\ \E r \in 1..Len(ds.y), c \in 1..Len(ds.x) : ds.mask[r][c]
    /\ \E r \in 1..Len(ds.y), c \in 1..Len(ds.x) :
          ~ds.mask[r][c] /\ ds.unw[1][r][c] # NaN

\* C10: the mask is true exactly outside the polygon; masking makes every
\* cell outside it missing in every band and keeps every cell inside it,
\* whatever the reference image holds, and keeps the shape.
C10_MaskIsOutsideOfPolygon ==
    maskState = "ok" =>
        /\ Len(DSmasked.unw) = Len(DS.unw)
        /\ \A rc \in Cells :
              /\ water[rc[1]][rc[2]] = (rc \notin gf)
              /\ \A b \in 1..Len(DS.unw) :
                    /\ Len(DSmasked.unw[b]) = Height
                    /\ Len(DSmasked.unw[b][rc[1]]) = Width
                    /\ DSmasked.unw[b][rc[1]][rc[2]] =
                          IF rc \in gf THEN DS.unw[b][rc[1]][rc[2]] ELSE NaN

\* a step of save_current_view that wrote its file
Saved == saves' = saves + 1 /\ saveState' = "ok"
\* the raster of the acquisition on show
Shown == remote[df[img.band + 1].url]

\* a view whose ranges leave the extent [left, right] x [bottom, top]
LeavesExtent(view, left, bottom, right, top) ==
    /\ view.x_range # <<>>
    /\ \/ view.x_range[1] < left \/ view.x_range[2] > right
       \/ view.y_range[1] < bottom \/ view.y_range[2] > top

\* a point off the cells of the dataset d
OffDataset(d, px, py) ==
    \/ Len(d.x) = 0 \/ Len(d.y) = 0
    \/ px < d.x[1] - 1 \/ px > d.x[Len(d.x)] + 1
    \/ py > d.y[1] + 1 \/ py < d.y[Len(d.y)] - 1

\* C5: the point extraction gives one value per acquisition, in catalog
\* order, at the grid cell closest to (xcen, ycen), which lies within half a
\* cell (1 unit) of it, whatever window was selected before.
C5_NearestWithinHalfCell ==
    tsState = "ok" =>
        /\ Len(ts.unw) = Len(df)
        /\ \E r \in 1..Len(DSmasked.y), c \in 1..Len(DSmasked.x) :
              /\ DSmasked.y[r] = ts.y
              /\ DSmasked.x[c] = ts.x
              /\ \A i \in 1..Len(df) : ts.unw[i] = DSmasked.unw[i][r][c]
        /\ \A c \in 1..Len(ds.x) : Abs(ts.x - xcen) <= Abs(ds.x[c] - xcen)
        /\ \A r \in 1..Len(ds.y) : Abs(ts.y - ycen) <= Abs(ds.y[r] - ycen)
        /\ Abs(ts.x - xcen) <= 1
        /\ Abs(ts.y - ycen) <= 1

\* C6: a window whose bounds leave the raster extent makes save_current_view
\* and the window selection fail, and a point off the dataset makes the point
\* selection fail; none returns truncated or clamped data.
C6_OutOfBoundsFails ==
    [][/\ (saves' = saves + 1
             /\ LeavesExtent(img, Bounds(Shown)[1], Bounds(Shown)[2],
                             Bounds(Shown)[3], Bounds(Shown)[4]))
          => (saveState' = "error" /\ files' = files)
       /\ (selState = "none" /\ selState' # "none"
             /\ LeavesExtent(img, Left, Bottom, Right, Top))
          => selState' = "error"
       /\ (tsState = "none" /\ tsState' # "none" /\ OffDataset(ds, xcen, ycen))
          => tsState' = "error"]_vars

C8_DistinctFilePerInvocation ==
    [][Saved => localname' \notin DOMAIN files]_vars

\* C8 amended: the file written is 'subset-' + the basename of the source
\* raster of the acquisition on show; no other acquisition has that name, and
\* the files of other acquisitions are left as they were.
C8_FilePerSourceRaster ==
    [][Saved =>
        /\ localname' = SubsetPrefix \o Basename(df[img.band + 1].url)
        /\ DOMAIN files' = DOMAIN files \cup {localname'}
        /\ \A n \in DOMAIN files \ {localname'} : files'[n] = files[n]
        /\ \A i \in 1..Len(df) :
              i # img.band + 1 => SubsetPrefix \o Basename(df[i].url) # localname']_vars

\* two invocations on two acquisitions have left two files
C8_Witness ==
    /\ saves = 2
    /\ saveState = "ok"
    /\ Cardinality(DOMAIN files) = 2

CellsOfPoint ==
    {rc \in (1..Len(DSmasked.y)) \X (1..Len(DSmasked.x)) :
        DSmasked.y[rc[1]] = ts.y /\ DSmasked.x[rc[2]] = ts.x}

====
